---------------------------- MODULE Spec2Model ----------------------------
(***************************************************************************)
(* Model of src/impls/mod.rs of bevy-inspector-egui: the Inspectable       *)
(* implementations for the numeric types, String, bool, Color and Vec<T>.  *)
(*                                                                         *)
(* One render pass is one call of `ui` on the bound value.  The widget     *)
(* library (egui) is the environment: in a pass it either leaves the       *)
(* location it was handed alone or stores a new value there, and a button  *)
(* is clicked or not.                                                      *)
(*                                                                         *)
(* Numbers keep their real widths.  A number is a sign and the set of the  *)
(* positions of the 1 bits of its magnitude (position p stands for 2^p,    *)
(* negative positions are fraction bits), so that u64, i64, f32 and f64    *)
(* values are exact although TLC's own integers have 32 bits.              *)
(***************************************************************************)
EXTENDS Integers, Sequences, FiniteSets

VARIABLES ty, value, before, opts, input, widget, rendered, panicked

vars == <<ty, value, before, opts, input, widget, rendered, panicked>>

\* ------------------------------------------------------------------ bounds

\* Sample values lie within NearEdge of the edges of a type (0, its minimum,
\* its maximum, the last integer its float image holds exactly).
NearEdge == 1

\* A color component is a whole number of steps of 1 / (255 * ColorSub):
\* ColorSub steps make one step of a u8 channel.
ColorSub == 2

\* Longest vector.
MaxLen == 3

\* ------------------------------------------------------------ number values

Fin(neg, bits) == [kind |-> "fin", neg |-> neg, bits |-> bits]

NaN == [kind |-> "nan", neg |-> FALSE, bits |-> {}]

Inf(neg) == [kind |-> "inf", neg |-> neg, bits |-> {}]

Zero == Fin(FALSE, {})

Top(S) == CHOOSE b \in S : \A c \in S : c <= b

Low(S) == CHOOSE b \in S : \A c \in S : b <= c

Max2(a, b) == IF a >= b THEN a ELSE b

\* S + 2^p, where S has no bit below p.
AddBit(S, p) ==
    LET b == Low({c \in p..(Max2(p, IF S = {} THEN p ELSE Top(S)) + 1) : c \notin S})
    IN  {c \in S : c > b} \cup {b}

\* S - 1 for an integer magnitude S > 0.
SubOne(S) ==
    LET b == Low(S)
    IN  (S \ {b}) \cup 0..(b - 1)

\* v + 1 and v - 1 on integers.
Inc(v) ==
    IF v.neg
    THEN LET m == SubOne(v.bits) IN Fin(m # {}, m)
    ELSE Fin(FALSE, AddBit(v.bits, 0))

Dec(v) ==
    IF v.neg THEN Fin(TRUE, AddBit(v.bits, 0))
    ELSE IF v.bits = {} THEN Fin(TRUE, {0})
    ELSE Fin(FALSE, SubOne(v.bits))

\* Magnitude A < magnitude B.
MagLt(A, B) == A # B /\ Top((A \ B) \cup (B \ A)) \in B


\* ------------------------------------------------------------------- types

Direct == {"f32", "f64", "u8", "i32"}

Delegating == {"u16", "u32", "u64", "i8", "i16", "i64"}

NumTypes == Direct \cup Delegating

IsFloat(t) == t \in {"f32", "f64"}

Signed(t) == t \in {"i8", "i16", "i32", "i64"}

Width(t) ==
    CASE t \in {"u8", "i8"} -> 8
      [] t \in {"u16", "i16"} -> 16
      [] t \in {"u32", "i32"} -> 32
      [] t \in {"u64", "i64"} -> 64

\* Number of magnitude bits of a non-negative value of integer type t.
PosBits(t) == IF Signed(t) THEN Width(t) - 1 ELSE Width(t)

TyMax(t) == Fin(FALSE, 0..(PosBits(t) - 1))

TyMin(t) == IF Signed(t) THEN Fin(TRUE, {Width(t) - 1}) ELSE Zero

\* v is a value of integer type t.
InRange(v, t) ==
    /\ v.kind = "fin"
    /\ \A b \in v.bits : b >= 0
    /\ IF v.neg
       THEN /\ Signed(t)
            /\ v.bits # {}
            /\ \/ Top(v.bits) < Width(t) - 1
               \/ v.bits = {Width(t) - 1}
       ELSE \A b \in v.bits : b < PosBits(t)

\* ------------------------------------------------------------- conversions

\* Significand bits, least and greatest exponent of f32 and f64.
F32Mant == 24

F32MinExp == -149

F32MaxExp == 127

F64Mant == 53

F64MinExp == -1074

F64MaxExp == 1023

\* The magnitude S rounded to m significant bits, none below position emin:
\* to nearest, ties to even.
RoundBits(S, m, emin) ==
    IF S = {} THEN {}
    ELSE LET cut    == Max2(Top(S) - (m - 1), emin)
             kept   == {b \in S : b >= cut}
             guard  == (cut - 1) \in S
             sticky == \E b \in S : b < cut - 1
             lsb    == cut \in S
         IN  IF guard /\ (sticky \/ lsb) THEN AddBit(kept, cut) ELSE kept

\* `v as f32` / `v as f64` of an integer or a float v.
ToFloat(v, m, emin, emax) ==
    IF v.kind # "fin" THEN v
    ELSE LET r == RoundBits(v.bits, m, emin)
         IN  IF r # {} /\ Top(r) > emax THEN Inf(v.neg) ELSE Fin(v.neg, r)

AsF32(v) == ToFloat(v, F32Mant, F32MinExp, F32MaxExp)

AsF64(v) == ToFloat(v, F64Mant, F64MinExp, F64MaxExp)

\* A cast that drops the fraction and does not saturate.
CastNoSaturate(f, t) ==
    IF f.kind # "fin" THEN f
    ELSE LET m == {b \in f.bits : b >= 0} IN Fin(f.neg /\ m # {}, m)

\* `f as $ty` of an f64 f: the fraction is dropped, NaN gives 0, and a value
\* beyond the type's range gives the nearest end of the range (the cast is
\* defined for every f64 since Rust 1.45; the `.clicked` field of egui's
\* Response that this file reads needs a later toolchain than that).
CastF64(f, t) ==
    IF f.kind = "nan" THEN Zero
    ELSE IF f.kind = "inf" THEN (IF f.neg THEN TyMin(t) ELSE TyMax(t))
    ELSE LET m == {b \in f.bits : b >= 0}
         IN  IF m = {} THEN Zero
             ELSE IF f.neg
                  THEN IF ~Signed(t) THEN Zero
                       ELSE IF Top(m) >= Width(t) - 1 THEN TyMin(t)
                       ELSE Fin(TRUE, m)
                  ELSE IF Top(m) >= PosBits(t) THEN TyMax(t)
                       ELSE Fin(FALSE, m)

\* Rust's `a != b` on numbers: NaN differs from everything, -0.0 equals 0.0.
NumNe(a, b) ==
    IF a.kind = "nan" \/ b.kind = "nan" THEN TRUE
    ELSE IF a.kind = "fin" /\ b.kind = "fin" /\ a.bits = {} /\ b.bits = {} THEN FALSE
    ELSE a # b

\* Rust's `a < b` on numbers.
NumLt(a, b) ==
    IF a.kind = "nan" \/ b.kind = "nan" THEN FALSE
    ELSE IF ~NumNe(a, b) THEN FALSE
    ELSE IF a.neg # b.neg THEN a.neg
    ELSE LET lt == IF a.kind = "inf" THEN FALSE
                   ELSE IF b.kind = "inf" THEN TRUE
                   ELSE MagLt(a.bits, b.bits)
             gt == IF b.kind = "inf" THEN FALSE
                   ELSE IF a.kind = "inf" THEN TRUE
                   ELSE MagLt(b.bits, a.bits)
         IN  IF a.neg THEN gt ELSE lt

\* ----------------------------------------------------------- sample inputs

RECURSIVE Walk(_, _)
\* The integers at most k steps of 1 away from a member of S.
Walk(S, k) ==
    IF k = 0 THEN S
    ELSE Walk(S \cup {Inc(v) : v \in S} \cup {Dec(v) : v \in S}, k - 1)

Near(v) == Walk({v}, NearEdge)

\* The power of two up to which every value of integer type t survives the
\* float cast the code applies to it: `as f32` for i32, `as f64` for the
\* delegating types.
ExactEdge(t) == IF t \in Direct THEN F32Mant ELSE F64Mant

IntSamples(t) ==
    LET edges == {Zero, TyMin(t), TyMax(t), Fin(FALSE, {ExactEdge(t)})}
    IN  {v \in UNION {Near(e) : e \in edges} : InRange(v, t)}

\* -0.0, 0.5, 1.5, -2, 2^24, NaN, +inf
F32Samples ==
    {Zero, Fin(TRUE, {}), Fin(FALSE, {-1}), Fin(FALSE, {0, -1}), Fin(TRUE, {1}),
     Fin(FALSE, {24}), NaN, Inf(FALSE)}

\* 1, 1 + 2^-30 (no f32 holds it), -1.5, 2^53, 2^200 (beyond f32), NaN, -inf
F64Samples ==
    {Zero, Fin(FALSE, {0}), Fin(FALSE, {0, -30}), Fin(TRUE, {0, -1}),
     Fin(FALSE, {53}), Fin(FALSE, {200}), NaN, Inf(TRUE)}

Samples(t) ==
    IF t = "f32" THEN F32Samples
    ELSE IF t = "f64" THEN F64Samples
    ELSE IntSamples(t)

\* Values min and max are drawn from.
BoundSamples(t) ==
    IF t = "f32" THEN {Zero, Fin(TRUE, {}), Fin(FALSE, {0, -1}), NaN}
    ELSE IF t = "f64" THEN {Zero, Fin(FALSE, {0}), Fin(FALSE, {0, -30}), NaN}
    ELSE LET e == IF InRange(Fin(FALSE, {ExactEdge(t)}), t)
                  THEN Fin(FALSE, {ExactEdge(t)}) ELSE TyMax(t)
         IN  {v \in Near(e) : InRange(v, t)}

\* What the f64 drag widget may store for a delegating type t: NaN, the
\* infinities, fractions, negatives, values beyond both ends of t's range.
WidgetF64(t) ==
    {NaN, Inf(TRUE), Fin(TRUE, {0, -1}), Fin(FALSE, {0, 1, -1}),
     Fin(FALSE, {PosBits(t)}), Fin(TRUE, {Width(t) - 1, Width(t) - 3})}

\* Speeds are counted in tenths: 1 is 0.1, 10 is 1.0.
SpeedSamples == {0, 1, 25}

PrefixSamples == {"", "$"}

SuffixSamples == {"", "m"}

\* ------------------------------------------------------ NumberAttributes

NumberAttributesDefaultPrefixed ==
    [min |-> Zero, max |-> Zero, speed |-> 0, prefix |-> "$", suffix |-> ""]

\* T::default() is 0 for every numeric type.
NumberAttributesDefault ==
    [min |-> Zero, max |-> Zero, speed |-> 0, prefix |-> "", suffix |-> ""]

NumberAttributes(t) ==
    {NumberAttributesDefault} \cup
    [min : BoundSamples(t), max : BoundSamples(t), speed : SpeedSamples,
     prefix : PrefixSamples, suffix : SuffixSamples]

\* NumberAttributes::map with f = |v| *v as f64
MapAsF64(custom) ==
    [min |-> AsF64(custom.min), max |-> AsF64(custom.max), speed |-> custom.speed,
     prefix |-> custom.prefix, suffix |-> custom.suffix]

\* ------------------------------------------------------------ impl_for_num

\* default_speed = 0.1 of f32 and f64, in tenths.
DefaultSpeed == 1

\* The speed the delegating types put in place of 0.0, in tenths.
DelegateSpeed == 10

HasDefaultSpeed(t) == t \in {"f32", "f64"}

RangeCondLt(min, max) == NumLt(min, max)

\* options.custom.min != options.custom.max
RangeCond(min, max) == NumNe(min, max)

\* The widget impl_for_num builds for type t: an unset property is <<>>.
DragValue(t, custom) ==
    [ctor   |-> t,
     prefix |-> IF custom.prefix # "" THEN <<custom.prefix>> ELSE <<>>,
     suffix |-> IF custom.suffix # "" THEN <<custom.suffix>> ELSE <<>>,
     range  |-> IF RangeCond(custom.min, custom.max)
                THEN <<AsF32(custom.min), AsF32(custom.max)>> ELSE <<>>,
     speed  |-> IF custom.speed # 0 THEN <<custom.speed>>
                ELSE IF HasDefaultSpeed(t) THEN <<DefaultSpeed>> ELSE <<>>]

OptionsF64KeepSpeed(custom) == MapAsF64(custom)

\* options.map(|custom| ...) of impl_for_num_delegate_f64
OptionsF64(custom) ==
    LET c == MapAsF64(custom)
    IN  IF c.speed = 0 THEN [c EXCEPT !.speed = DelegateSpeed] ELSE c

\* The widget library is not part of this file: whether a widget stores a
\* value in a pass, and which, is an input of the pass.
\* An input is <<>> (the widget stores nothing) or <<x>> (it stores x).
NoEdit == <<>>

Edits(S) == {NoEdit} \cup {<<x>> : x \in S}

Stored(cur, e) == IF e = NoEdit THEN cur ELSE e[1]

\* What the drag widget may store for a direct type t.
WidgetDirect(t) ==
    IF IsFloat(t) THEN {NaN, Fin(TRUE, {0, -1})} ELSE {TyMin(t), TyMax(t)}

\* What the widget of a pass may do to the number it is bound to: a value of
\* the type itself for the direct types, an f64 for the delegating ones.
NumEdits ==
    [t \in NumTypes |-> Edits(IF t \in Direct THEN WidgetDirect(t) ELSE WidgetF64(t))]

\* <$ty as Inspectable>::ui for f32, f64, u8, i32
UiNum ==
    /\ ty \in Direct
    /\ ~panicked
    /\ widget' = DragValue(ty, opts)
    /\ \E e \in NumEdits[ty] :
          /\ input' = e
          /\ value' = Stored(value, e)
    /\ before' = value
    /\ rendered' = TRUE
    /\ UNCHANGED <<ty, opts, panicked>>

\* <$ty as Inspectable>::ui for u16, u32, u64, i8, i16, i64
UiNumDelegate ==
    /\ ty \in Delegating
    /\ ~panicked
    /\ widget' = DragValue("f64", OptionsF64(opts))
    /\ \E e \in NumEdits[ty] :
          /\ input' = e
          /\ value' = CastF64(Stored(AsF64(value), e), ty)
    /\ before' = value
    /\ rendered' = TRUE
    /\ UNCHANGED <<ty, opts, panicked>>

\* ---------------------------------------------------------- String, bool

Strings == {"", "a", "a b"}

StringAttributesDefault == [multiline |-> FALSE]

StringAttributes == [multiline : BOOLEAN]

TextEdit(custom) ==
    [ctor |-> IF custom.multiline THEN "TextEdit::multiline" ELSE "TextEdit::singleline"]

\* <String as Inspectable>::ui
UiString ==
    /\ ty = "String"
    /\ ~panicked
    /\ widget' = TextEdit(opts)
    /\ \E e \in Edits(Strings) :
          /\ input' = e
          /\ value' = Stored(value, e)
    /\ before' = value
    /\ rendered' = TRUE
    /\ UNCHANGED <<ty, opts, panicked>>

\* <bool as Inspectable>::ui
UiBool ==
    /\ ty = "bool"
    /\ ~panicked
    /\ \E e \in Edits(BOOLEAN) :
          /\ input' = e
          /\ value' = Stored(value, e)
    /\ widget' = [ctor |-> "checkbox", label |-> ""]
    /\ before' = value
    /\ rendered' = TRUE
    /\ UNCHANGED <<ty, opts, panicked>>

\* ------------------------------------------------------------------ Color

\* The f32 arithmetic on color components is taken as exact: a component is
\* the rational x / One, so that `x * 255.0` is x / ColorSub.  The egui and
\* bevy calls are modelled by what they are documented to do: a Color32 holds
\* the four bytes it was built from, Color::rgba_u8 divides each byte by 255,
\* Color::rgb builds an opaque color.

\* u8::MAX
U8Max == 255

\* 1.0 as a color component.
One == U8Max * ColorSub

\* Below one u8 step, one u8 step, just below 1.0, 1.0, above 1.0.
ComponentSamples == {0, 1, ColorSub, One - 1, One, One + 1}

Colors == [r : ComponentSamples, g : ComponentSamples, b : ComponentSamples,
           a : ComponentSamples]

ColorAttributesDefault == [alpha |-> FALSE]

ColorAttributes == [alpha : BOOLEAN]

\* `(x * u8::MAX as f32) as u8`: the product loses its fraction and is kept
\* within 0..=255.
ToU8(x) ==
    IF x <= 0 THEN 0
    ELSE IF x \div ColorSub >= U8Max THEN U8Max
    ELSE x \div ColorSub

\* Color32::from_rgba_premultiplied followed by to_array: the four bytes.
Color32(r, g, b, a) == <<r, g, b, a>>

\* Color::rgba_u8: each byte over 255.
RgbaU8(r, g, b, a) ==
    [r |-> r * ColorSub, g |-> g * ColorSub, b |-> b * ColorSub, a |-> a * ColorSub]

\* Color::rgb: an opaque color.
Rgb(r, g, b) == [r |-> r, g |-> g, b |-> b, a |-> One]

\* What the color button may store: a Color32 with alpha, an [f32; 3] without.
ColorEdits ==
    [alpha \in BOOLEAN |->
        IF alpha THEN Edits({<<0, 0, 0, 0>>, <<U8Max, 128, 1, U8Max>>})
        ELSE Edits({<<0, 0, 0>>, <<One, 1, One \div 2>>})]

\* The body of <Color as Inspectable>::ui, e the button's doing.
ColorUi(self, custom, e) ==
    LET old == <<self.r, self.g, self.b, self.a>>
    IN  IF custom.alpha
        THEN LET color == Stored(Color32(ToU8(old[1]), ToU8(old[2]), ToU8(old[3]),
                                         ToU8(old[4])), e)
             IN  RgbaU8(color[1], color[2], color[3], color[4])
        ELSE LET color == Stored(<<old[1], old[2], old[3]>>, e)
             IN  Rgb(color[1], color[2], color[3])

\* <Color as Inspectable>::ui
UiColor ==
    /\ ty = "Color"
    /\ ~panicked
    /\ widget' = [ctor |-> IF opts.alpha THEN "color_edit_button_srgba"
                                         ELSE "color_edit_button_rgb"]
    /\ \E e \in ColorEdits[opts.alpha] :
          /\ input' = e
          /\ value' = ColorUi(value, opts, e)
    /\ before' = value
    /\ rendered' = TRUE
    /\ UNCHANGED <<ty, opts, panicked>>

\* ----------------------------------------------------------------- Vec<T>

\* The element type T: two values, "d" being T::default().
Elem == {"d", "x"}

ElemDefault == "d"

\* T::FieldOptions
ElemOptions == {"o1", "o2"}

RECURSIVE SeqsUpTo(_)
SeqsUpTo(n) ==
    IF n = 0 THEN {<<>>}
    ELSE LET shorter == SeqsUpTo(n - 1)
         IN  shorter \cup {Append(q, x) : q \in {p \in shorter : Len(p) = n - 1}, x \in Elem}

Vecs == SeqsUpTo(MaxLen)

\* What the user and the elements' widgets do in one pass over a vector of
\* length n: at most one element's ui stores a value (<<i, x>>), any set of
\* "-" buttons is clicked, and "+" is clicked or not (not on a vector that is
\* MaxLen long already).
VecInputs ==
    [n \in 0..(MaxLen + 1) |->
        [edit  : {NoEdit} \cup ((0..(n - 1)) \X Elem),
         minus : SUBSET (0..(n - 1)),
         plus  : IF n < MaxLen THEN BOOLEAN ELSE {FALSE}]]

\* val.ui(ui, options.clone()) on element i
ElemUi(val, i, edit) == IF edit # NoEdit /\ edit[1] = i THEN edit[2] ELSE val

ClickedKeepFirst(to_delete, i) == IF to_delete = <<>> THEN <<i>> ELSE to_delete

ClickedOffByOne(to_delete, i) == <<i + 1>>

\* to_delete = Some(i)
Clicked(to_delete, i) == <<i>>

RECURSIVE VecLoop(_, _, _, _)
\* for (i, val) in self.iter_mut().enumerate() { .. }, from index i on.  The
\* log holds each call of an element's ui: its label, the element and the
\* options it was handed.
VecLoop(i, st, options, inp) ==
    IF i >= Len(st.vec) THEN st
    ELSE VecLoop(i + 1,
                 [vec |-> [st.vec EXCEPT ![i + 1] = ElemUi(@, i, inp.edit)],
                  log |-> Append(st.log, [label |-> i, val |-> st.vec[i + 1],
                                          options |-> options]),
                  to_delete |-> IF i \in inp.minus THEN Clicked(st.to_delete, i)
                                ELSE st.to_delete],
                 options, inp)

PlusButtonAlways(vec, clicked) == Append(vec, ElemDefault)

\* if ui.button("+").clicked { self.push(T::default()) }
PlusButton(vec, clicked) == IF clicked THEN Append(vec, ElemDefault) ELSE vec

\* Vec::remove(i), i a valid index.
Remove(vec, i) == [k \in 1..(Len(vec) - 1) |-> IF k <= i THEN vec[k] ELSE vec[k + 1]]

\* The body of <Vec<T> as Inspectable>::ui.  Vec::remove panics on an index
\* that is not below the length.
VecUi(self, options, inp) ==
    LET st     == VecLoop(0, [vec |-> self, log |-> <<>>, to_delete |-> <<>>],
                          options, inp)
        pushed == PlusButton(st.vec, inp.plus)
    IN  IF st.to_delete = <<>>
        THEN [vec |-> pushed, log |-> st.log, to_delete |-> <<>>, panic |-> FALSE]
        ELSE IF st.to_delete[1] < Len(pushed)
        THEN [vec |-> Remove(pushed, st.to_delete[1]), log |-> st.log,
              to_delete |-> st.to_delete, panic |-> FALSE]
        ELSE [vec |-> pushed, log |-> st.log, to_delete |-> st.to_delete,
              panic |-> TRUE]

\* <Vec<T> as Inspectable>::ui
UiVec ==
    /\ ty = "Vec"
    /\ ~panicked
    /\ \E inp \in VecInputs[Len(value)] :
          LET r == VecUi(value, opts, inp)
          IN  /\ input' = inp
              /\ value' = r.vec
              /\ widget' = [log |-> r.log, to_delete |-> r.to_delete]
              /\ panicked' = r.panic
    /\ before' = value
    /\ rendered' = TRUE
    /\ UNCHANGED <<ty, opts>>

\* ------------------------------------------------------- the state machine

Types == NumTypes \cup {"String", "bool", "Color", "Vec"}

Values(t) ==
    IF t \in NumTypes THEN Samples(t)
    ELSE IF t = "String" THEN Strings
    ELSE IF t = "Color" THEN Colors
    ELSE IF t = "Vec" THEN Vecs
    ELSE BOOLEAN

\* The options a field of type t may be declared with.
Options(t) ==
    IF t \in NumTypes THEN NumberAttributes(t)
    ELSE IF t = "String" THEN StringAttributes
    ELSE IF t = "Color" THEN ColorAttributes
    ELSE IF t = "Vec" THEN ElemOptions
    ELSE {<<>>}

\* A value of one of the types is bound to an inspector field; the field's
\* options are fixed when it is declared and handed to every ui call.
Init ==
    /\ ty \in Types
    /\ value \in Values(ty)
    /\ before = value
    /\ opts \in Options(ty)
    /\ input = NoEdit
    /\ widget = <<>>
    /\ rendered = FALSE
    /\ panicked = FALSE

Next == UiNum \/ UiNumDelegate \/ UiString \/ UiBool \/ UiColor \/ UiVec

Spec == Init /\ [][Next]_vars

\* ------------------------------------------------------------------ claims

\* C1: a render pass of a numeric type in which the widget stores nothing
\* leaves the bound value equal to its value before the pass.
C1_NoOpKeepsNumber ==
    (ty \in NumTypes /\ rendered /\ input = NoEdit) => value = before

\* C2: a render pass of a Color in which the color button stores nothing
\* leaves all four components unchanged, with alpha true or false.
C2_NoOpKeepsColor ==
    (ty = "Color" /\ rendered /\ input = NoEdit) => value = before

\* C3: a pass over a Vec<T> with no "+" click, no "-" click and no element
\* edit leaves the vector as it was.
C3_NoOpKeepsVec ==
    (ty = "Vec" /\ rendered /\ input.edit = NoEdit /\ input.minus = {} /\ ~input.plus)
        => value = before

C3_Witness ==
    /\ ty = "Vec" /\ rendered
    /\ input.edit = NoEdit /\ input.minus = {} /\ ~input.plus
    /\ Len(before) >= 2
    /\ \E k \in 1..Len(before) : before[k] # ElemDefault

\* C4: Vec::remove is never called with an index that is not below the length
\* the vector has at that moment.
C4_RemoveInBounds == ~panicked

C4_Witness ==
    /\ ty = "Vec" /\ rendered /\ ~panicked
    /\ input.plus
    /\ Cardinality(input.minus) >= 2
    /\ widget.to_delete = <<Len(before) - 1>>

\* C5: after a pass of a delegating integer type the bound value is a value of
\* that type, whatever f64 the widget stored.
C5_WriteBackInRange ==
    (ty \in Delegating /\ rendered) => InRange(value, ty)

C5_Witness ==
    /\ ty = "u16" /\ rendered
    /\ input = <<Fin(TRUE, {0, -1})>>
    /\ value = Zero
    /\ before # Zero

\* C6 as stated: for f32, f64, u8 and i32 the range is applied exactly when
\* min != max, and the range applied is min..=max.
C6_RangeIsMinMax ==
    (ty \in Direct /\ rendered) =>
        widget.range = IF NumNe(opts.min, opts.max) THEN <<opts.min, opts.max>> ELSE <<>>

\* C6 amended: for f32, f64, u8 and i32 the range is applied exactly when
\* min != max (never with the default attributes), and the range applied is
\* (min as f32)..=(max as f32), whether or not min < max.
C6_RangeIffMinNeMax ==
    (ty \in Direct /\ rendered) =>
        /\ widget.range = IF NumNe(opts.min, opts.max)
                          THEN <<AsF32(opts.min), AsF32(opts.max)>> ELSE <<>>
        /\ opts = NumberAttributesDefault => widget.range = <<>>

C6_Witness ==
    /\ ty = "i32" /\ rendered
    /\ NumLt(opts.max, opts.min)
    /\ widget.range = <<AsF32(opts.min), AsF32(opts.max)>>
    /\ widget.range[1] # opts.min

\* C7: the default attributes have min = max = 0, speed 0.0 and empty prefix
\* and suffix, and a numeric pass with them sets no range, prefix or suffix;
\* the default StringAttributes give the single-line editor and the default
\* ColorAttributes the RGB editor.
C7_DefaultsUnconfigured ==
    /\ NumberAttributesDefault.min = Zero /\ NumberAttributesDefault.max = Zero
    /\ NumberAttributesDefault.speed = 0
    /\ NumberAttributesDefault.prefix = "" /\ NumberAttributesDefault.suffix = ""
    /\ (ty \in NumTypes /\ rendered /\ opts = NumberAttributesDefault) =>
          widget.range = <<>> /\ widget.prefix = <<>> /\ widget.suffix = <<>>
    /\ (ty = "String" /\ rendered /\ opts = StringAttributesDefault) =>
          widget.ctor = "TextEdit::singleline"
    /\ (ty = "Color" /\ rendered /\ opts = ColorAttributesDefault) =>
          widget.ctor = "color_edit_button_rgb"

C7_Witness ==
    /\ ty = "i64" /\ rendered
    /\ opts = NumberAttributesDefault
    /\ widget.range = <<>> /\ widget.prefix = <<>> /\ widget.suffix = <<>>

\* C8: a pass over a Vec<T> renders every element present at its start once,
\* in index order, each with the same options; the result is the start vector
\* (with the elements' own edits) less the element at the highest clicked "-"
\* index, if any, followed by one default element if "+" was clicked; the
\* length moves by -1, 0 or 1.
C8_VecPass ==
    (ty = "Vec" /\ rendered) =>
        LET n      == Len(before)
            edited == [k \in 1..n |-> ElemUi(before[k], k - 1, input.edit)]
            hi     == CHOOSE i \in input.minus : \A j \in input.minus : j <= i
            kept   == IF input.minus = {} THEN edited
                      ELSE [k \in 1..(n - 1) |-> IF k <= hi THEN edited[k] ELSE edited[k + 1]]
        IN  /\ widget.log = [k \in 1..n |-> [label |-> k - 1, val |-> before[k],
                                             options |-> opts]]
            /\ widget.to_delete = IF input.minus = {} THEN <<>> ELSE <<hi>>
            /\ value = kept \o (IF input.plus THEN <<ElemDefault>> ELSE <<>>)
            /\ Len(value) - n \in {-1, 0, 1}

C8_Witness ==
    /\ ty = "Vec" /\ rendered
    /\ input.plus
    /\ input.minus = {0, 1}
    /\ input.edit = NoEdit
    /\ before = <<"d", "x">>
    /\ value = <<"d", "d">>
    /\ Len(widget.log) = 2

\* C9: for the delegating types the f64 widget gets a range exactly when
\* min != max in the integer type, and the prefix, the suffix and a non-zero
\* speed reach it unchanged.
C9_DelegateRangeCond ==
    (ty \in Delegating /\ rendered) =>
        /\ (widget.range # <<>>) <=> (opts.min # opts.max)
        /\ widget.prefix = IF opts.prefix = "" THEN <<>> ELSE <<opts.prefix>>
        /\ widget.suffix = IF opts.suffix = "" THEN <<>> ELSE <<opts.suffix>>
        /\ opts.speed # 0 => widget.speed = <<opts.speed>>

\* C10: a non-zero speed is passed on unchanged; with speed 0.0, f32 and f64
\* get 0.1, the delegating types get 1.0, and u8 and i32 set no speed.
C10_SpeedSelection ==
    (ty \in NumTypes /\ rendered) =>
        widget.speed = IF opts.speed # 0 THEN <<opts.speed>>
                       ELSE IF ty \in {"f32", "f64"} THEN <<DefaultSpeed>>
                       ELSE IF ty \in Delegating THEN <<DelegateSpeed>>
                       ELSE <<>>

C10_Witness ==
    /\ ty = "u64" /\ rendered
    /\ opts.speed = 0
    /\ widget.ctor = "f64"
    /\ widget.speed = <<DelegateSpeed>>
============================================================================
